---- MODULE Spec2Model ----
(***************************************************************************)
(* Model of lambda/notify-to-app/index.py: the notification relay that     *)
(* reads a batch of change records, fetches each new article, asks the     *)
(* model service for a summary, renders a Slack or Teams message and posts *)
(* it to the webhook.                                                      *)
(*                                                                         *)
(* Text is modelled at the character level: a Python str is a sequence of  *)
(* one-character strings.  A character outside ASCII is written by its     *)
(* code point ("U+3002" is the ideographic full stop).                     *)
(***************************************************************************)
EXTENDS Integers, Sequences, FiniteSets, TLC

VARIABLES
    pc,        \* position of the running call
    arg,       \* argument of the function under call
    ret,       \* value the call returned
    event,     \* event["Records"] handed to handler
    new_data,  \* list built by get_new_entries
    idx,       \* index in item_list of the item push_notification works on
    item,      \* the locals of push_notification for that item
    posts,     \* webhook POSTs made so far, in order
    exc,       \* the exception in flight ("none" when there is none)
    log        \* external calls made so far, in order

vars == <<pc, arg, ret, event, new_data, idx, item, posts, exc, log>>

----------------------------------------------------------------------------
(* Python str primitives                                                    *)

\* Characters str.strip() removes (those of the model's alphabet).
Whitespace == {" ", "\t", "\n", "\r"}

\* s[i:i+len(pat)] == pat
MatchAt(s, pat, i) ==
    /\ i >= 1
    /\ i + Len(pat) - 1 <= Len(s)
    /\ \A k \in 1..Len(pat) : s[i + k - 1] = pat[k]

\* Least index >= from at which pat occurs in s, 0 when there is none
\* (the leftmost-first scan of re and of str.find).
Find(s, pat, from) ==
    LET hits == {i \in from..(Len(s) - Len(pat) + 1) : MatchAt(s, pat, i)}
    IN  IF hits = {} THEN 0 ELSE CHOOSE i \in hits : \A j \in hits : i <= j

\* pat in s
Contains(s, pat) == Find(s, pat, 1) # 0

\* s[from-1:] in Python terms: the suffix that starts at index from.
Tail_(s, from) == SubSeq(s, from, Len(s))

\* str.strip(): without leading and trailing whitespace.
Strip(s) ==
    IF \A i \in 1..Len(s) : s[i] \in Whitespace THEN <<>>
    ELSE LET first == CHOOSE i \in 1..Len(s) :
                         /\ s[i] \notin Whitespace
                         /\ \A j \in 1..(i - 1) : s[j] \in Whitespace
             last  == CHOOSE i \in 1..Len(s) :
                         /\ s[i] \notin Whitespace
                         /\ \A j \in (i + 1)..Len(s) : s[j] \in Whitespace
         IN  SubSeq(s, first, last)

\* s[:n]
Prefix(s, n) == SubSeq(s, 1, IF Len(s) < n THEN Len(s) ELSE n)

----------------------------------------------------------------------------
(* sanitize_text                                                            *)

OpenTag(name)  == <<"<">> \o name \o <<">">>
CloseTag(name) == <<"<", "/">> \o name \o <<">">>

T_outputFormat   == <<"o","u","t","p","u","t","F","o","r","m","a","t">>
T_summaryRule    == <<"s","u","m","m","a","r","y","R","u","l","e">>
T_outputLanguage == <<"o","u","t","p","u","t","L","a","n","g","u","a","g","e">>
T_instruction    == <<"i","n","s","t","r","u","c","t","i","o","n">>
T_persona        == <<"p","e","r","s","o","n","a">>
T_input          == <<"i","n","p","u","t">>

\* The patterns of unwanted_tags, in the order the loop applies them.
unwanted_tags ==
    <<T_outputFormat, T_summaryRule, T_outputLanguage,
      T_instruction, T_persona, T_input>>

\* re.sub(r'<tag>.*?</tag>', '', s, flags=re.DOTALL): each leftmost opening
\* tag is removed together with everything up to the first closing tag that
\* follows it; the scan goes on after the removed match.
RECURSIVE RemoveTagPairs(_, _)
RemoveTagPairs(s, tag) ==
    LET o == Find(s, OpenTag(tag), 1)
        c == IF o = 0 THEN 0 ELSE Find(s, CloseTag(tag), o + Len(OpenTag(tag)))
    IN  IF o = 0 \/ c = 0 THEN s
        ELSE SubSeq(s, 1, o - 1)
             \o RemoveTagPairs(Tail_(s, c + Len(CloseTag(tag))), tag)

\* The for loop over unwanted_tags, from pattern k on.
RECURSIVE RemoveUnwanted(_, _)
RemoveUnwanted(s, k) ==
    IF k > Len(unwanted_tags) THEN s
    ELSE RemoveUnwanted(RemoveTagPairs(s, unwanted_tags[k]), k + 1)

\* re.sub(r'\n{3,}', '\n\n', s): every maximal run of three or more
\* newlines becomes two.
RECURSIVE CollapseNewlines(_)
CollapseNewlines(s) ==
    LET i == Find(s, <<"\n", "\n", "\n">>, 1)
    IN  IF i = 0 THEN s
        ELSE LET rest == Tail_(s, i + 3)
                 run  == IF \A j \in 1..Len(rest) : rest[j] = "\n"
                         THEN Len(rest)
                         ELSE (CHOOSE j \in 1..Len(rest) :
                                  /\ rest[j] # "\n"
                                  /\ \A h \in 1..(j - 1) : rest[h] = "\n") - 1
             IN  SubSeq(s, 1, i - 1) \o <<"\n", "\n">>
                 \o CollapseNewlines(Tail_(rest, run + 1))

sanitize_text(text) ==
    IF text = <<>> THEN <<>>
    ELSE Strip(CollapseNewlines(RemoveUnwanted(text, 1)))

----------------------------------------------------------------------------
(* Inputs of the text functions: concatenations of a few pieces.            *)

MaxPieces == 5

RECURSIVE Concat(_)
Concat(ps) == IF ps = <<>> THEN <<>> ELSE Head(ps) \o Concat(Tail(ps))

PiecesUpTo(P, n) == UNION {[1..k -> P] : k \in 0..n}

SanitizePieces ==
    { <<"<","i","n","p">>, <<"u","t",">">>,
      OpenTag(T_input), CloseTag(T_input),
      <<"a">>, <<"\n">>, <<" ">> }

SanitizeInputs == {Concat(ps) : ps \in PiecesUpTo(SanitizePieces, MaxPieces)}

\* The variables of one handler invocation, at rest while a text function
\* is exercised on its own.
NoInvocation ==
    /\ event = <<>>
    /\ new_data = <<>>
    /\ idx = 0
    /\ item = <<>>
    /\ posts = <<>>
    /\ exc = "none"
    /\ log = <<>>

invocationVars == <<event, new_data, idx, item, posts, exc, log>>

InitSanitize ==
    /\ pc = "sanitize"
    /\ arg \in SanitizeInputs
    /\ ret = <<>>
    /\ NoInvocation

\* x -> sanitize_text(x)
SanitizeOnce ==
    /\ pc = "sanitize"
    /\ ret' = sanitize_text(arg)
    /\ pc' = "sanitized"
    /\ UNCHANGED <<arg, invocationVars>>

\* sanitize_text(x) -> sanitize_text(sanitize_text(x)); arg keeps the first
\* result for comparison.
SanitizeAgain ==
    /\ pc = "sanitized"
    /\ arg' = ret
    /\ ret' = sanitize_text(ret)
    /\ pc' = "resanitized"
    /\ UNCHANGED invocationVars

NextSanitize == SanitizeOnce \/ SanitizeAgain

SpecSanitize == InitSanitize /\ [][NextSanitize]_vars

----------------------------------------------------------------------------
(* Claims about sanitize_text                                               *)

\* C3: sanitize_text is idempotent: sanitizing a text that sanitize_text
\* returned gives that text back unchanged.
C3_SanitizeIdempotent == pc = "resanitized" => ret = arg

\* The spans <<first, last>> of the tag pairs of one name in s, an opening
\* tag being paired with the closing tag that balances it (the nearest
\* unpaired opening tag before each closing tag).
RECURSIVE PairSpans(_, _, _, _)
PairSpans(s, tag, i, open) ==
    IF i > Len(s) THEN {}
    ELSE IF MatchAt(s, OpenTag(tag), i)
         THEN PairSpans(s, tag, i + Len(OpenTag(tag)), <<i>> \o open)
    ELSE IF MatchAt(s, CloseTag(tag), i) /\ open # <<>>
         THEN {<<Head(open), i + Len(CloseTag(tag)) - 1>>}
              \cup PairSpans(s, tag, i + Len(CloseTag(tag)), Tail(open))
    ELSE PairSpans(s, tag, i + 1, open)

\* Character i of s lies in a tag pair of one of the six names.
InsideTagPair(s, i) ==
    \E k \in 1..Len(unwanted_tags) :
        \E sp \in PairSpans(s, unwanted_tags[k], 1, <<>>) : sp[1] <= i /\ i <= sp[2]

\* The characters of s that lie in no tag pair, in order.
RECURSIVE OutsideTagPairs(_, _)
OutsideTagPairs(s, i) ==
    IF i > Len(s) THEN <<>>
    ELSE (IF InsideTagPair(s, i) THEN <<>> ELSE <<s[i]>>)
         \o OutsideTagPairs(s, i + 1)

\* Every opening tag of this name in s has its closing tag and every
\* closing tag its opening tag, so that which characters a tag pair
\* encloses is not in doubt.
RECURSIVE TagsBalance(_, _, _, _)
TagsBalance(s, tag, i, depth) ==
    IF i > Len(s) THEN depth = 0
    ELSE IF MatchAt(s, OpenTag(tag), i)
         THEN TagsBalance(s, tag, i + Len(OpenTag(tag)), depth + 1)
    ELSE IF MatchAt(s, CloseTag(tag), i)
         THEN depth > 0 /\ TagsBalance(s, tag, i + Len(CloseTag(tag)), depth - 1)
    ELSE TagsBalance(s, tag, i + 1, depth)

WellNested(s) ==
    \A k \in 1..Len(unwanted_tags) : TagsBalance(s, unwanted_tags[k], 1, 0)

\* C4: sanitize_text removes every tag pair of the six names with what it
\* encloses, at any nesting depth (a pair inside a pair of the same name
\* included), and nothing else but collapsed newlines and trimmed edge
\* whitespace: on a text whose tags balance, the result is the text outside
\* the tag pairs, newline runs collapsed and edges trimmed.
C4_RemovesExactlyTagPairs ==
    (pc = "sanitized" /\ WellNested(arg))
        => ret = Strip(CollapseNewlines(OutsideTagPairs(arg, 1)))

----------------------------------------------------------------------------
(* summarize_blog: parsing of the model's reply                             *)

T_summary  == <<"s","u","m","m","a","r","y">>
T_thinking == <<"t","h","i","n","k","i","n","g">>

\* Length the fallback summary is cut to.
SummaryLimit == 200

Ellipsis == <<".", ".", ".">>

\* re.findall(r"<tag>([\s\S]*?)</tag>", s), cut to the part the code reads:
\* the empty list when nothing matches, else the list holding the group of the
\* first match (what lies between the leftmost opening tag and the first
\* closing tag after it).
FindallFirst(s, tag) ==
    LET o == Find(s, OpenTag(tag), 1)
        c == IF o = 0 THEN 0 ELSE Find(s, CloseTag(tag), o + Len(OpenTag(tag)))
    IN  IF o = 0 \/ c = 0 THEN <<>>
        ELSE <<SubSeq(s, o + Len(OpenTag(tag)), c - 1)>>

\* sanitized[:200] + "..." if len(sanitized) > 200 else sanitized
TruncateSummary_Mutant(sanitized) ==
    IF Len(sanitized) >= SummaryLimit
    THEN Prefix(sanitized, SummaryLimit) \o Ellipsis
    ELSE sanitized

TruncateSummary(sanitized) ==
    IF Len(sanitized) > SummaryLimit
    THEN Prefix(sanitized, SummaryLimit) \o Ellipsis
    ELSE sanitized

\* The summary summarize_blog takes from outputText.
ExtractSummary(outputText) ==
    LET summary_match == FindallFirst(outputText, T_summary)
    IN  IF summary_match # <<>> THEN Strip(summary_match[1])
        ELSE TruncateSummary(sanitize_text(outputText))

\* The detail summarize_blog takes from outputText.
ExtractDetail(outputText) ==
    LET detail_match == FindallFirst(outputText, T_thinking)
    IN  IF detail_match # <<>> THEN Strip(detail_match[1]) ELSE <<>>

\* The (summary, detail) pair the try block computes from outputText.
ParseOutput(outputText) ==
    [summary |-> ExtractSummary(outputText), detail |-> ExtractDetail(outputText)]

MaxReplyPieces == 4

\* A run of n copies of the character c.
Filler(c, n) == [i \in 1..n |-> c]

ReplyPieces ==
    { OpenTag(T_summary), CloseTag(T_summary),
      OpenTag(T_thinking), CloseTag(T_thinking),
      <<" ", "a">>, Filler("b", 100),
      OpenTag(T_input) \o <<"x">> \o CloseTag(T_input) }

ReplyInputs == {Concat(ps) : ps \in PiecesUpTo(ReplyPieces, MaxReplyPieces)}

InitParse ==
    /\ pc = "parse"
    /\ arg \in ReplyInputs
    /\ ret = <<>>
    /\ NoInvocation

\* outputText -> (summary, detail), lines 242-265.
ParseReply ==
    /\ pc = "parse"
    /\ ret' = ParseOutput(arg)
    /\ pc' = "parsed"
    /\ UNCHANGED <<arg, invocationVars>>

NextParse == ParseReply

SpecParse == InitParse /\ [][NextParse]_vars

\* The opening tag at o and the closing tag at c make the first
\* <tag>...</tag> match of s: no opening tag starts before o and c is the
\* first closing tag after the opening tag.
IsFirstMatch(s, tag, o, c) ==
    /\ MatchAt(s, OpenTag(tag), o)
    /\ MatchAt(s, CloseTag(tag), c)
    /\ \A o2 \in 1..(o - 1) : ~MatchAt(s, OpenTag(tag), o2)
    /\ \A c2 \in (o + Len(OpenTag(tag)))..(c - 1) : ~MatchAt(s, CloseTag(tag), c2)

\* s holds a <tag>...</tag> match, and the content of its first one,
\* trimmed, is out.
FirstMatchTrimmedIs(s, tag, out) ==
    \E o \in 1..Len(s) :
        /\ MatchAt(s, OpenTag(tag), o)
        /\ \E c \in (o + Len(OpenTag(tag)))..Len(s) :
              /\ IsFirstMatch(s, tag, o, c)
              /\ out = Strip(SubSeq(s, o + Len(OpenTag(tag)), c - 1))

\* s holds no <tag>...</tag> match at all: no closing tag follows an
\* opening tag.
NoMatch(s, tag) ==
    \A o \in 1..Len(s) :
        MatchAt(s, OpenTag(tag), o) =>
            \A c \in (o + Len(OpenTag(tag)))..Len(s) : ~MatchAt(s, CloseTag(tag), c)

\* C6: for every raw reply, parsing yields a (summary, detail) pair where
\* the summary is the trimmed content of the first <summary> match or, with no
\* such match, the sanitized reply, cut to 200 characters plus "..." only when
\* it is longer than 200; the detail is the trimmed content of the first
\* <thinking> match or, with no such match, empty.
C6_ParseYieldsSummaryAndDetail ==
    pc = "parsed" =>
        /\ DOMAIN ret = {"summary", "detail"}
        /\ \/ FirstMatchTrimmedIs(arg, T_summary, ret.summary)
           \/ /\ NoMatch(arg, T_summary)
              /\ LET sanitized == sanitize_text(arg)
                 IN  IF Len(sanitized) > 200
                     THEN ret.summary = SubSeq(sanitized, 1, 200) \o <<".", ".", ".">>
                     ELSE ret.summary = sanitized
        /\ \/ FirstMatchTrimmedIs(arg, T_thinking, ret.detail)
           \/ /\ NoMatch(arg, T_thinking)
              /\ ret.detail = <<>>

\* A reply without a <summary> match whose sanitized text is longer than 200
\* characters has been parsed, and one with both sections has been parsed.
C6_Witness ==
    /\ pc = "parsed"
    /\ NoMatch(arg, T_summary)
    /\ Len(sanitize_text(arg)) > 200
    /\ Len(ret.summary) = 203
    /\ ret.detail # <<>>

----------------------------------------------------------------------------
(* parse_bullet_points                                                      *)

\* Optional values: None, and a value that is present.
None == <<>>
Some(x) == <<x>>

\* Python truth of an Optional[str]: neither None nor "".
Truthy(opt) == opt # None /\ opt[1] # <<>>

\* s.split(sep) for a one-character sep: the pieces between the separators,
\* one more than there are separators.
RECURSIVE Split(_, _)
Split(s, sep) ==
    LET i == Find(s, <<sep>>, 1)
    IN  IF i = 0 THEN <<s>>
        ELSE <<SubSeq(s, 1, i - 1)>> \o Split(Tail_(s, i + 1), sep)

\* s.startswith(pat)
StartsWith(s, pat) == MatchAt(s, pat, 1)

topic_keywords ==
    { <<"U+65B0", "U+6A5F", "U+80FD">>,
      <<"U+5229", "U+7528", "U+53EF", "U+80FD">>,
      <<"U+5BFE", "U+8C61">>,
      <<"U+8A73", "U+7D30">>,
      <<"U+7279", "U+5FB4">>,
      <<"U+30E1", "U+30EA", "U+30C3", "U+30C8">>,
      <<"U+66F4", "U+65B0">>,
      <<"U+5909", "U+66F4">>,
      <<"U+8FFD", "U+52A0">> }

\* is_topic and ':' in content
IsTopicHeader(content) ==
    /\ \E keyword \in topic_keywords : Contains(content, keyword)
    /\ Contains(content, <<":">>)

\* content.rsplit(':', 1): the cut at the last colon.
SplitTopic_Mutant(content) ==
    LET hits == {i \in 1..Len(content) : content[i] = ":"}
        p == CHOOSE i \in hits : \A j \in hits : j <= i
    IN  <<SubSeq(content, 1, p - 1), Tail_(content, p + 1)>>

\* content.split(':', 1): <<topic, details>>, cut at the first colon.
SplitTopic(content) ==
    LET p == Find(content, <<":">>, 1)
    IN  <<SubSeq(content, 1, p - 1), Tail_(content, p + 1)>>

\* The group a topic header opens.
NewTopicGroup(content) ==
    LET topic   == SplitTopic(content)[1]
        details == SplitTopic(content)[2]
    IN  [topic |-> Some(Strip(topic)),
         items |-> IF Strip(details) # <<>> THEN <<Strip(details)>> ELSE <<>>]

\* The for loop over lines, from line k on.  current_group, when set, is the
\* dict appended last to groups by the topic branch; cur is its index in
\* groups, and 0 stands for current_group = None.
RECURSIVE ParseLines(_, _, _, _)
ParseLines(lines, k, groups, cur) ==
    IF k > Len(lines) THEN groups
    ELSE LET line == Strip(lines[k])
         IN  IF line = <<>> THEN ParseLines(lines, k + 1, groups, cur)
             ELSE IF ~StartsWith(line, <<"-", " ">>)
                  THEN ParseLines(lines, k + 1, groups, cur)
             ELSE LET content == Strip(Tail_(line, 3))
                  IN  IF IsTopicHeader(content)
                      THEN ParseLines(lines, k + 1,
                                      Append(groups, NewTopicGroup(content)),
                                      Len(groups) + 1)
                      ELSE IF cur # 0
                      THEN ParseLines(lines, k + 1,
                                      [groups EXCEPT ![cur].items = Append(@, content)],
                                      cur)
                      ELSE LET gs == IF groups = <<>> \/ Truthy(groups[Len(groups)].topic)
                                     THEN Append(groups, [topic |-> None, items |-> <<>>])
                                     ELSE groups
                           IN  ParseLines(lines, k + 1,
                                          [gs EXCEPT ![Len(gs)].items = Append(@, content)],
                                          cur)

parse_bullet_points(text) ==
    IF text = <<>> THEN <<>>
    ELSE ParseLines(Split(Strip(text), "\n"), 1, <<>>, 0)

MaxLines == 3

\* "\n".join(lines)
RECURSIVE Join(_, _)
Join(lines, sep) ==
    IF lines = <<>> THEN <<>>
    ELSE IF Len(lines) = 1 THEN lines[1]
    ELSE lines[1] \o sep \o Join(Tail(lines), sep)

BulletLines ==
    { <<>>,
      <<"a">>,
      <<"-">>,
      <<"-", " ", "b">>,
      <<" ", "-", " ", "c", " ">>,
      <<"-", " ", "U+65B0", "U+6A5F", "U+80FD", ":", " ", "d">>,
      <<"-", " ", "U+5BFE", "U+8C61", " ", ":">>,
      <<"-", " ", "U+8FFD", "U+52A0">>,
      <<"-", " ", "e", ":", "f">>,
      <<"-", " ", ":", "U+66F4", "U+65B0">>,
      <<"-", " ", "g", ":", "U+5909", "U+66F4", ":", "h">> }

BulletInputs ==
    {Join(ls, <<"\n">>) : ls \in PiecesUpTo(BulletLines, MaxLines)}

InitBullets ==
    /\ pc = "bullets"
    /\ arg \in BulletInputs
    /\ ret = <<>>
    /\ NoInvocation

\* text -> parse_bullet_points(text)
ParseBullets ==
    /\ pc = "bullets"
    /\ ret' = parse_bullet_points(arg)
    /\ pc' = "grouped"
    /\ UNCHANGED <<arg, invocationVars>>

NextBullets == ParseBullets

SpecBullets == InitBullets /\ [][NextBullets]_vars

\* A line that, trimmed, begins with the dash-space marker, and its content.
IsDashLine(line) == StartsWith(Strip(line), <<"-", " ">>)
DashContent(line) == Strip(Tail_(Strip(line), 3))

\* The contents of the dash-space lines of text, in input order.
Bullets(text) ==
    LET ls == SelectSeq(Split(text, "\n"), IsDashLine)
    IN  [i \in 1..Len(ls) |-> DashContent(ls[i])]

\* A bullet that contains a topic keyword and a colon.
IsTopicBullet(b) ==
    /\ \E kw \in topic_keywords : \E i \in 1..Len(b) : MatchAt(b, kw, i)
    /\ \E i \in 1..Len(b) : b[i] = ":"

FirstColon(b) ==
    CHOOSE i \in 1..Len(b) : b[i] = ":" /\ \A j \in 1..(i - 1) : b[j] # ":"

\* The least element of S above t, or top when there is none.
NextAbove(S, t, top) ==
    IF \E u \in S : u > t
    THEN CHOOSE u \in S : u > t /\ \A v \in S : v > t => u <= v
    ELSE top

\* C7: parse_bullet_points groups the dash-space lines by topic.  Each
\* bullet with a topic keyword and a colon opens a group whose topic is the
\* trimmed text before its first colon and whose first item is the trimmed
\* rest unless that is empty; every other bullet is an item, in input order,
\* of the group of the nearest topic bullet before it, or of one topic-less
\* group when no topic bullet precedes it; other lines add nothing, so a text
\* without dash-space lines gives no group.
C7_GroupsBulletsByTopic ==
    pc = "grouped" =>
        LET B    == Bullets(arg)
            T    == {i \in 1..Len(B) : IsTopicBullet(B[i])}
            lead == IF Len(B) > 0 /\ 1 \notin T THEN 1 ELSE 0
        IN  /\ Len(ret) = Cardinality(T) + lead
            /\ lead = 1 =>
                  /\ ret[1].topic = None
                  /\ ret[1].items = SubSeq(B, 1, NextAbove(T, 0, Len(B) + 1) - 1)
            /\ \A t \in T :
                  LET g    == ret[Cardinality({u \in T : u <= t}) + lead]
                      c    == FirstColon(B[t])
                      rest == Strip(SubSeq(B[t], c + 1, Len(B[t])))
                  IN  /\ g.topic = Some(Strip(SubSeq(B[t], 1, c - 1)))
                      /\ g.items = (IF rest = <<>> THEN <<>> ELSE <<rest>>)
                                   \o SubSeq(B, t + 1, NextAbove(T, t, Len(B) + 1) - 1)

\* A text has been grouped into a topic-less group followed by a topic group
\* that took its first item from the topic line and a second from the bullet
\* after it.
C7_Witness ==
    /\ pc = "grouped"
    /\ Len(ret) = 2
    /\ ret[1].topic = None
    /\ Truthy(ret[2].topic)
    /\ Len(ret[2].items) = 2

----------------------------------------------------------------------------
(* create_slack_message and create_teams_message                            *)

\* Slack's limit on a header text, on a section text, and the cut of the
\* summary in the fallback text.
HeaderLimit == 150
SectionLimit == 3000
FallbackLimit == 100

SummaryLabel  == <<"*", "U+1F4DD", " ", "U+8981", "U+7D04", "*", "\n">>
DetailLabel   == <<"*", "U+1F50D", " ", "U+8A73", "U+7D30", "U+5206", "U+6790", "*">>
DateLabel     == <<"U+1F4C5", " ", "*", "U+516C", "U+958B", "U+65E5", "U+6642", ":", "*", " ">>
BulletMark    == <<"U+2022", " ">>

K_available == <<"U+5229", "U+7528", "U+53EF", "U+80FD">>
K_target    == <<"U+5BFE", "U+8C61">>
K_new       == <<"U+65B0", "U+6A5F", "U+80FD">>
K_added     == <<"U+8FFD", "U+52A0">>
K_changed   == <<"U+5909", "U+66F4">>
K_updated   == <<"U+66F4", "U+65B0">>

\* The emoji that goes before a topic.
TopicEmoji(topic) ==
    IF Contains(topic, K_available) \/ Contains(topic, K_target) THEN "U+2705"
    ELSE IF Contains(topic, K_new) \/ Contains(topic, K_added) THEN "U+1F680"
    ELSE IF Contains(topic, K_changed) \/ Contains(topic, K_updated) THEN "U+1F504"
    ELSE "U+1F4CC"

\* "\n".join([f"• {item}" for item in items])
BulletList(items) ==
    Join([i \in 1..Len(items) |-> BulletMark \o items[i]], <<"\n">>)

Section(text) == [type |-> "section", text |-> text]

\* The text of the summary section.
SummarySectionText(safe_summary) == SummaryLabel \o safe_summary

\* The blocks one bullet group adds: a section, or nothing for a group
\* without topic and without items.
GroupBlocks(group) ==
    IF Truthy(group.topic)
    THEN LET head == <<TopicEmoji(group.topic[1]), " ", "*">> \o group.topic[1] \o <<"*">>
             bullet_text == IF group.items # <<>>
                            THEN head \o <<"\n">> \o BulletList(group.items)
                            ELSE head
         IN  <<Section(Prefix(bullet_text, SectionLimit))>>
    ELSE IF group.items # <<>>
         THEN <<Section(Prefix(BulletList(group.items), SectionLimit))>>
         ELSE <<>>

\* The for loop over bullet_groups, from group k on.
RECURSIVE GroupsBlocks(_, _)
GroupsBlocks(groups, k) ==
    IF k > Len(groups) THEN <<>>
    ELSE GroupBlocks(groups[k]) \o GroupsBlocks(groups, k + 1)

create_slack_message(it) ==
    LET safe_summary  == sanitize_text(it.summary)
        safe_detail   == sanitize_text(it.detail)
        bullet_groups == parse_bullet_points(safe_detail)
        blocks ==
            <<[type |-> "header", text |-> Prefix(it.rss_title, HeaderLimit)]>>
            \o <<[type |-> "context", text |-> DateLabel \o it.rss_time]>>
            \o (IF safe_summary # <<>>
                THEN <<Section(SummarySectionText(safe_summary))>> ELSE <<>>)
            \o <<[type |-> "divider"]>>
            \o (IF bullet_groups # <<>>
                THEN <<Section(DetailLabel)>> \o GroupsBlocks(bullet_groups, 1)
                ELSE <<>>)
            \o <<[type |-> "divider"]>>
            \o <<[type |-> "actions", url |-> it.rss_link]>>
    IN  [blocks |-> blocks,
         text   |-> it.rss_title \o <<" ", "-", " ">>
                    \o Prefix(safe_summary, FallbackLimit) \o Ellipsis]

\* The adaptive card, cut to the parts that depend on the item: the two
\* always-visible text blocks, the hidden one, and the Open Link action.
create_teams_message(it) ==
    [type |-> "message",
     attachments |->
        <<[contentType |-> "application/vnd.microsoft.card.adaptive",
           content |->
              [type |-> "AdaptiveCard",
               collapsedItems |-> <<<<"*", "*">> \o it.rss_title \o <<"*", "*">>,
                                    it.summary>>,
               expandedItems  |-> <<it.detail>>,
               actions        |-> <<[type |-> "Action.OpenUrl", url |-> it.rss_link]>>]]>>]

\* How far past a limit the lengths of the rendered inputs go.
MaxOver == 1

\* Lengths around a limit: 0, 1, and limit - 1 .. limit + MaxOver.
LengthsAround(limit) == {0, 1} \cup ((limit - 1)..(limit + MaxOver))

SlackTitles == {Filler("T", n) : n \in LengthsAround(HeaderLimit)}

\* Summaries whose section text (label included) is around the limit.
SlackSummaries ==
    {Filler("s", n) : n \in LengthsAround(SectionLimit - Len(SummaryLabel))}

SlackDetails ==
    { <<>>, <<"-", " ", "b">> }
    \cup {<<"-", " ">> \o Filler("w", n) :
             n \in (SectionLimit - 1)..(SectionLimit + MaxOver)}
    \cup {<<"-", " ", "U+65B0", "U+6A5F", "U+80FD", ":", " ">> \o Filler("v", n) :
             n \in (SectionLimit - 1)..(SectionLimit + MaxOver)}

SlackItems ==
    [rss_title : SlackTitles,
     rss_time  : {<<"2", "0", "2", "4">>},
     rss_link  : {<<"h", "t", "t", "p", "s", ":", "/", "/", "a">>},
     summary   : SlackSummaries,
     detail    : SlackDetails]

InitSlack ==
    /\ pc = "render"
    /\ arg \in SlackItems
    /\ ret = <<>>
    /\ NoInvocation

\* item -> create_slack_message(item)
RenderSlack ==
    /\ pc = "render"
    /\ ret' = create_slack_message(arg)
    /\ pc' = "rendered"
    /\ UNCHANGED <<arg, invocationVars>>

NextSlack == RenderSlack

SpecSlack == InitSlack /\ [][NextSlack]_vars

\* C9: every Slack message keeps the platform limits whatever the title,
\* summary and detail: the header text has at most 150 characters and the
\* text of every section block, the summary section included, at most 3000.
C9_SlackLimitsRespected ==
    pc = "rendered" =>
        \A i \in 1..Len(ret.blocks) :
            /\ ret.blocks[i].type = "header" => Len(ret.blocks[i].text) <= 150
            /\ ret.blocks[i].type = "section" => Len(ret.blocks[i].text) <= 3000

----------------------------------------------------------------------------
(* One invocation of handler                                                *)

\* Dict keys, event names, destinations and exception classes are atomic
\* strings; free text (titles, URLs, replies) is character sequences.

\* The direct base class of each exception class the code can meet.
ExceptionBases ==
    [KeyError          |-> "LookupError",
     LookupError       |-> "Exception",
     UnboundLocalError |-> "NameError",
     NameError         |-> "Exception",
     HTTPError         |-> "URLError",
     URLError          |-> "OSError",
     OSError           |-> "Exception",
     ClientError       |-> "Exception",
     Exception         |-> "BaseException"]

\* isinstance(e, cls) for an exception e of class type.
RECURSIVE IsInstance(_, _)
IsInstance(type, cls) ==
    \/ type = cls
    \/ /\ type \in DOMAIN ExceptionBases
       /\ IsInstance(ExceptionBases[type], cls)

\* NOTIFIERS and SUMMARIZERS, read from the environment at import: one
\* notifier per destination kind.
NOTIFIERS ==
    [ToSlack   |-> [destination |-> "slack", summarizerName |-> "Architect",
                    webhookUrlParameterName |-> "/WhatsNew/URL/slack"],
     ToTeams   |-> [destination |-> "teams", summarizerName |-> "Architect",
                    webhookUrlParameterName |-> "/WhatsNew/URL/teams"],
     ToDiscord |-> [destination |-> "discord", summarizerName |-> "Architect",
                    webhookUrlParameterName |-> "/WhatsNew/URL/discord"]]

SUMMARIZERS ==
    [Architect |-> [outputLanguage |-> "Japanese.", persona |-> "solutions architect"]]

(* get_new_entries *)

ImageKeys == {"category", "pubtime", "title", "url", "notifier_name"}

\* entry["eventName"] == "INSERT", with != "REMOVE" in its place.
IsNewEntry_Mutant(entry) == entry.eventName # "REMOVE"

\* entry["eventName"] == "INSERT"
IsNewEntry(entry) == entry.eventName = "INSERT"

\* The reads entry["dynamodb"]["NewImage"][key]["S"] all succeed.
HasImage(entry) ==
    /\ "NewImage" \in DOMAIN entry.dynamodb
    /\ ImageKeys \subseteq DOMAIN entry.dynamodb.NewImage

new_data_of(entry) ==
    [rss_category      |-> entry.dynamodb.NewImage.category,
     rss_time          |-> entry.dynamodb.NewImage.pubtime,
     rss_title         |-> entry.dynamodb.NewImage.title,
     rss_link          |-> entry.dynamodb.NewImage.url,
     rss_notifier_name |-> entry.dynamodb.NewImage.notifier_name]

\* get_new_entries(blog_entries): the exception it raises ("none" when it
\* returns) and the list it returns.
get_new_entries(blog_entries) ==
    IF \E i \in 1..Len(blog_entries) :
           IsNewEntry(blog_entries[i]) /\ ~HasImage(blog_entries[i])
    THEN [exc |-> "KeyError", res_list |-> <<>>]
    ELSE LET new == SelectSeq(blog_entries, IsNewEntry)
         IN  [exc |-> "none",
              res_list |-> [i \in 1..Len(new) |-> new_data_of(new[i])]]

(* get_blog_content *)

\* c.lower() for the letters URLs are written with here.
LowerChar(c) ==
    CASE c = "H" -> "h" [] c = "T" -> "t" [] c = "P" -> "p" [] c = "S" -> "s"
      [] c = "F" -> "f" [] OTHER -> c

Lower(s) == [i \in 1..Len(s) |-> LowerChar(s[i])]

Http  == <<"h", "t", "t", "p", ":", "/", "/">>
Https == <<"h", "t", "t", "p", "s", ":", "/", "/">>

\* url.lower().startswith(("http://", "https://"))
SchemeAccepted(url) ==
    StartsWith(Lower(url), Http) \/ StartsWith(Lower(url), Https)

\* What urlopen and the page can do: a 200 page with or without a <main>
\* element, a response with another status, or HTTPError / URLError raised
\* by urlopen.
FetchOutcomes == {"main", "no_main", "not_200", "HTTPError", "URLError"}

MainText == <<"m">>

\* The try block of get_blog_content when the network behaves as outcome:
\* the exception it raises ("none" when it returns) and the value it returns.
\* With a scheme that is not accepted the else branch reads response, a local
\* that was never bound.
FetchBody(url, outcome) ==
    IF SchemeAccepted(url)
    THEN IF outcome \in {"HTTPError", "URLError"}
         THEN [exc |-> outcome, content |-> None]
         ELSE IF outcome = "main"
              THEN [exc |-> "none", content |-> Some(MainText)]
              ELSE [exc |-> "none", content |-> None]
    ELSE [exc |-> "UnboundLocalError", content |-> None]

\* get_blog_content(url): the try block under except urllib.error.URLError,
\* which returns None.
get_blog_content(url, outcome) ==
    LET r == FetchBody(url, outcome)
    IN  IF r.exc # "none" /\ IsInstance(r.exc, "URLError")
        THEN [exc |-> "none", content |-> None]
        ELSE r

(* summarize_blog *)

\* Replies the model can give: both sections, with a sentence end before a
\* line break in the analysis; a summary that carries instruction markup and
\* no analysis; plain text without any section.
ReplyBoth ==
    OpenTag(T_thinking)
    \o <<"-", " ", "U+65B0", "U+6A5F", "U+80FD", ":", " ", "a", "U+3002", "\n", "-", " ", "b">>
    \o CloseTag(T_thinking) \o OpenTag(T_summary) \o <<"s">> \o CloseTag(T_summary)

ReplyLeaky ==
    OpenTag(T_summary) \o OpenTag(T_input) \o <<"x">> \o CloseTag(T_input)
    \o <<"s">> \o CloseTag(T_summary)

ReplyPlain == <<"p">>

Replies == {ReplyBoth, ReplyLeaky, ReplyPlain}

\* What converse can do: return a reply, or raise ClientError with the
\* error code AccessDeniedException or with another code.
ModelOutcomes ==
    {[kind |-> "reply", text |-> r] : r \in Replies}
    \cup {[kind |-> "ClientError", code |-> c] :
             c \in {"AccessDeniedException", "ThrottlingException"}}

\* summarize_blog with an except clause that lets no ClientError out: for a
\* code other than AccessDeniedException it returns an empty pair.
summarize_blog_Swallows(outcome) ==
    IF outcome.kind = "reply"
    THEN [exc |-> "none",
          summary |-> ParseOutput(outcome.text).summary,
          detail  |-> ParseOutput(outcome.text).detail]
    ELSE IF outcome.code = "AccessDeniedException"
         THEN [exc |-> "UnboundLocalError", summary |-> <<>>, detail |-> <<>>]
         ELSE [exc |-> "none", summary |-> <<>>, detail |-> <<>>]

\* summarize_blog with an except clause that re-raises every ClientError.
summarize_blog_Reraises(outcome) ==
    IF outcome.kind = "reply"
    THEN [exc |-> "none",
          summary |-> ParseOutput(outcome.text).summary,
          detail  |-> ParseOutput(outcome.text).detail]
    ELSE [exc |-> "ClientError", summary |-> <<>>, detail |-> <<>>]

\* summarize_blog when converse behaves as outcome: the exception it raises
\* ("none" when it returns) and the pair it returns.  On access denial the
\* except clause prints and falls through to return summary, detail, two
\* locals that were never bound.
summarize_blog(outcome) ==
    IF outcome.kind = "reply"
    THEN [exc |-> "none",
          summary |-> ParseOutput(outcome.text).summary,
          detail  |-> ParseOutput(outcome.text).detail]
    ELSE IF outcome.code = "AccessDeniedException"
         THEN [exc |-> "UnboundLocalError", summary |-> <<>>, detail |-> <<>>]
         ELSE [exc |-> "ClientError", summary |-> <<>>, detail |-> <<>>]

(* push_notification *)

\* s.replace(old, new)
RECURSIVE Replace(_, _, _)
Replace(s, old, new) ==
    LET i == Find(s, old, 1)
    IN  IF i = 0 THEN s
        ELSE SubSeq(s, 1, i - 1) \o new \o Replace(Tail_(s, i + Len(old)), old, new)

\* destination == "teams", with != "slack" in its place.
IsTeams_Mutant(destination) == destination # "slack"

\* destination == "teams"
IsTeams(destination) == destination = "teams"

\* item after item["summary"] = summary, item["detail"] = detail and, for
\* Teams, the line-break rewrite of item["detail"].
ItemToRender(entry, destination, summary, detail) ==
    [rss_category      |-> entry.rss_category,
     rss_time          |-> entry.rss_time,
     rss_title         |-> entry.rss_title,
     rss_link          |-> entry.rss_link,
     rss_notifier_name |-> entry.rss_notifier_name,
     summary           |-> summary,
     detail            |-> IF IsTeams(destination)
                           THEN Replace(detail, <<"U+3002", "\n">>, <<"U+3002", "\r">>)
                           ELSE detail]

\* msg, by destination.
RenderFor(destination, it) ==
    IF IsTeams(destination) THEN create_teams_message(it)
    ELSE create_slack_message(it)

\* What the webhook POST can do: answer, or make urlopen raise.
PostOutcomes == {"ok", "HTTPError", "URLError"}

(* handler *)

\* except Exception, with except ClientError in its place.
HandlerCatches_Mutant(type) == IsInstance(type, "ClientError")

\* except Exception
HandlerCatches(type) == IsInstance(type, "Exception")

(* The steps of one invocation *)

MaxRecords == 3

Image(title, url, notifier) ==
    [category      |-> <<"c">>,
     pubtime       |-> <<"2", "0", "2", "4">>,
     title         |-> title,
     url           |-> url,
     notifier_name |-> notifier]

\* The change records an event is made of: inserts for each destination
\* (one with an upper-case scheme, one with a scheme that is not http), an
\* insert for a notifier that is not configured, an insert whose image lacks
\* its title, a MODIFY with its new image and a REMOVE with its old image.
RecordKinds ==
    { [eventName |-> "INSERT",
       dynamodb |-> [NewImage |-> Image(<<"A">>, Https \o <<"a">>, "ToSlack")]],
      [eventName |-> "INSERT",
       dynamodb |-> [NewImage |-> Image(<<"B">>, <<"H", "T", "T", "P", ":", "/", "/", "b">>, "ToTeams")]],
      [eventName |-> "INSERT",
       dynamodb |-> [NewImage |-> Image(<<"C">>, Http \o <<"c">>, "ToDiscord")]],
      [eventName |-> "INSERT",
       dynamodb |-> [NewImage |-> Image(<<"D">>, <<"f", "t", "p", ":", "/", "/", "d">>, "ToSlack")]],
      [eventName |-> "INSERT",
       dynamodb |-> [NewImage |-> Image(<<"E">>, Https \o <<"e">>, "NotConfigured")]],
      [eventName |-> "INSERT",
       dynamodb |-> [NewImage |-> [category |-> <<"c">>, pubtime |-> <<"2", "0", "2", "4">>,
                                   url |-> Https \o <<"f">>, notifier_name |-> "ToSlack"]]],
      [eventName |-> "MODIFY",
       dynamodb |-> [NewImage |-> Image(<<"G">>, Https \o <<"g">>, "ToSlack")]],
      [eventName |-> "REMOVE",
       dynamodb |-> [OldImage |-> Image(<<"H">>, Https \o <<"h">>, "ToSlack")]] }

\* The events: up to MaxRecords records, or an event without "Records".
Events ==
    {[Records |-> rs] : rs \in PiecesUpTo(RecordKinds, MaxRecords)}
    \cup {[Other |-> <<>>]}

Init ==
    /\ pc = "handler"
    /\ arg = <<>>
    /\ ret = <<>>
    /\ event \in Events
    /\ new_data = <<>>
    /\ idx = 0
    /\ item = <<>>
    /\ posts = <<>>
    /\ exc = "none"
    /\ log = <<>>

\* A call made for item k, as the log keeps it.
Called(op, k) == [op |-> op, k |-> k, type |-> "none", origin |-> "none"]

\* An exception of class type leaves origin on its way to handler's except
\* clause; lg is the log up to the raise.
RaiseFrom(lg, type, origin, k) ==
    /\ exc' = type
    /\ pc' = "except"
    /\ log' = Append(lg, [op |-> "raise", k |-> k, type |-> type, origin |-> origin])

\* handler up to the call of push_notification: event["Records"],
\* get_new_entries and the test 0 < len(new_data).
HandlerStart ==
    /\ pc = "handler"
    /\ IF "Records" \notin DOMAIN event
       THEN RaiseFrom(log, "KeyError", "handler", 0) /\ UNCHANGED <<new_data, idx>>
       ELSE LET r == get_new_entries(event.Records)
            IN  IF r.exc # "none"
                THEN RaiseFrom(log, r.exc, "get_new_entries", 0)
                     /\ UNCHANGED <<new_data, idx>>
                ELSE /\ new_data' = r.res_list
                     /\ IF 0 < Len(r.res_list)
                        THEN pc' = "resolve" /\ idx' = 1
                        ELSE pc' = "returned" /\ idx' = 0
                     /\ UNCHANGED <<exc, log>>
    /\ UNCHANGED <<arg, ret, event, item, posts>>

\* push_notification, lines 288-292: the notifier's configuration and the
\* webhook URL from the parameter store.
Resolve ==
    /\ pc = "resolve"
    /\ LET name == new_data[idx].rss_notifier_name
       IN  IF name \notin DOMAIN NOTIFIERS
           THEN RaiseFrom(log, "KeyError", "push_notification", idx) /\ UNCHANGED item
           ELSE \E outcome \in {"ok", "ClientError"} :
                   LET lg == Append(log, Called("get_parameter", idx))
                   IN  IF outcome = "ok"
                       THEN /\ item' = [destination     |-> NOTIFIERS[name].destination,
                                        summarizerName  |-> NOTIFIERS[name].summarizerName,
                                        app_webhook_url |-> NOTIFIERS[name].webhookUrlParameterName,
                                        content         |-> None,
                                        summary         |-> <<>>,
                                        detail          |-> <<>>]
                            /\ pc' = "fetch"
                            /\ log' = lg
                            /\ UNCHANGED exc
                       ELSE RaiseFrom(lg, "ClientError", "get_parameter", idx)
                            /\ UNCHANGED item
    /\ UNCHANGED <<arg, ret, event, new_data, idx, posts>>

\* push_notification, lines 294-297: content = get_blog_content(item_url).
Fetch ==
    /\ pc = "fetch"
    /\ \E outcome \in FetchOutcomes :
          LET r  == get_blog_content(new_data[idx].rss_link, outcome)
              lg == Append(log, Called("get_blog_content", idx))
          IN  IF r.exc # "none"
              THEN RaiseFrom(lg, r.exc, "get_blog_content", idx) /\ UNCHANGED item
              ELSE /\ item' = [item EXCEPT !.content = r.content]
                   /\ pc' = "summarize"
                   /\ log' = lg
                   /\ UNCHANGED exc
    /\ UNCHANGED <<arg, ret, event, new_data, idx, posts>>

\* push_notification, lines 299-301: summary, detail = summarize_blog(...).
\* The log keeps the call, the error converse raised if it raised one, and
\* the diagnostic printed for an error that is not raised again.
Summarize ==
    /\ pc = "summarize"
    /\ item.summarizerName \in DOMAIN SUMMARIZERS
    /\ \E outcome \in ModelOutcomes :
          LET r  == summarize_blog(outcome)
              lc == Append(log, Called("summarize_blog", idx))
              le == IF outcome.kind = "reply" THEN lc
                    ELSE Append(lc, [op |-> "error", k |-> idx,
                                     type |-> outcome.code, origin |-> "converse"])
              lg == IF outcome.kind # "reply" /\ outcome.code = "AccessDeniedException"
                    THEN Append(le, [op |-> "print", k |-> idx,
                                     type |-> outcome.code, origin |-> "summarize_blog"])
                    ELSE le
          IN  IF r.exc # "none"
              THEN RaiseFrom(lg, r.exc, "summarize_blog", idx) /\ UNCHANGED item
              ELSE /\ item' = [item EXCEPT !.summary = r.summary, !.detail = r.detail]
                   /\ pc' = "post"
                   /\ log' = lg
                   /\ UNCHANGED exc
    /\ UNCHANGED <<arg, ret, event, new_data, idx, posts>>

\* push_notification, lines 303-319: the summary and detail go into the
\* item, the message is rendered for the destination and POSTed to the
\* webhook.  A request that got an answer, 200 or an error status, is a POST
\* made; with URLError none was made.
Post ==
    /\ pc = "post"
    /\ LET it  == ItemToRender(new_data[idx], item.destination, item.summary, item.detail)
           msg == RenderFor(item.destination, it)
           lg  == Append(log, Called("post", idx))
       IN  /\ new_data' = [new_data EXCEPT ![idx] = it]
           /\ \E outcome \in PostOutcomes :
                 /\ posts' = IF outcome = "URLError" THEN posts
                             ELSE Append(posts, [k      |-> idx,
                                                 url    |-> item.app_webhook_url,
                                                 body   |-> msg,
                                                 status |-> outcome])
                 /\ IF outcome = "ok"
                    THEN pc' = "sleep" /\ log' = lg /\ UNCHANGED exc
                    ELSE RaiseFrom(lg, outcome, "urlopen", idx)
    /\ UNCHANGED <<arg, ret, event, idx, item>>

\* push_notification, line 320, and the loop's step to the next item.
Sleep ==
    /\ pc = "sleep"
    /\ log' = Append(log, Called("sleep", idx))
    /\ item' = <<>>
    /\ IF idx < Len(new_data)
       THEN pc' = "resolve" /\ idx' = idx + 1
       ELSE pc' = "returned" /\ idx' = idx
    /\ UNCHANGED <<arg, ret, event, new_data, posts, exc>>

\* handler's except clause: what it catches is printed and the invocation
\* returns; anything else leaves handler.
HandlerExcept ==
    /\ pc = "except"
    /\ IF HandlerCatches(exc)
       THEN /\ pc' = "returned"
            /\ exc' = "none"
            /\ log' = Append(log, [op |-> "caught", k |-> idx, type |-> exc,
                                   origin |-> "handler"])
       ELSE /\ pc' = "propagated"
            /\ UNCHANGED <<exc, log>>
    /\ UNCHANGED <<arg, ret, event, new_data, idx, item, posts>>

Next ==
    \/ HandlerStart
    \/ Resolve
    \/ Fetch
    \/ Summarize
    \/ Post
    \/ Sleep
    \/ HandlerExcept

Spec == Init /\ [][Next]_vars


----------------------------------------------------------------------------
(* Claims about one invocation                                              *)

\* C1: get_blog_content never raises to its caller: whatever the URL and
\* whatever goes wrong it returns, so no exception leaves it and the entry
\* it was called for is summarized next.
C1_FetchNeverRaises ==
    /\ \A i \in 1..Len(log) :
          log[i].op = "raise" => log[i].origin # "get_blog_content"
    /\ (Len(log) > 0 /\ log[Len(log)].op = "get_blog_content") => pc = "summarize"

\* C2: handler never propagates an exception: whatever is raised in
\* get_new_entries or push_notification is caught at the entry point, and
\* the invocation returns with no exception in flight.
C2_HandlerNeverPropagates ==
    /\ pc # "propagated"
    /\ pc = "returned" => exc = "none"

\* An invocation has returned after its except clause caught an exception
\* raised in push_notification.
C2_Witness ==
    /\ pc = "returned"
    /\ \E i \in 1..Len(log) : log[i].op = "raise" /\ log[i].k > 0
    /\ log[Len(log)].op = "caught"

\* s holds a tag pair of one of the six instruction-markup names.
HasTagPair(s) ==
    \E n \in 1..Len(unwanted_tags) :
        \E o \in 1..Len(s) :
            /\ MatchAt(s, OpenTag(unwanted_tags[n]), o)
            /\ \E c \in (o + Len(OpenTag(unwanted_tags[n])))..Len(s) :
                  MatchAt(s, CloseTag(unwanted_tags[n]), c)

\* The summary and detail texts a message shows: the section texts and the
\* fallback text of the blocks layout, the summary and detail text blocks of
\* the adaptive card.
ShownTexts(body) ==
    IF "blocks" \in DOMAIN body
    THEN {body.blocks[i].text :
             i \in {j \in 1..Len(body.blocks) : body.blocks[j].type = "section"}}
         \cup {body.text}
    ELSE {body.attachments[1].content.collapsedItems[2],
          body.attachments[1].content.expandedItems[1]}

\* C5: no text shown in a rendered message contains instruction markup:
\* for either destination, the summary and detail texts of every payload
\* posted hold none of the six tag pairs.
C5_NoMarkupShown ==
    \A j \in 1..Len(posts) :
        \A t \in ShownTexts(posts[j].body) : ~HasTagPair(t)

\* C8: renderer and line-break rewrite go together.  A "teams" entry is
\* posted as an adaptive card whose detail text is the summarizer's detail
\* with "\r" in place of every "\n" that follows an ideographic full stop; an
\* entry with any other destination is posted in the blocks layout, its
\* detail is left as the summarizer gave it and no text of the message holds
\* a full stop followed by "\r".
C8_RendererAndRewriteGoTogether ==
    pc = "sleep" =>
        LET body == posts[Len(posts)].body
            d    == item.detail
        IN  IF item.destination = "teams"
            THEN /\ "attachments" \in DOMAIN body
                 /\ "blocks" \notin DOMAIN body
                 /\ LET shown == body.attachments[1].content.expandedItems[1]
                    IN  /\ Len(shown) = Len(d)
                        /\ \A i \in 1..Len(d) :
                              shown[i] = IF d[i] = "\n" /\ i > 1 /\ d[i - 1] = "U+3002"
                                         THEN "\r" ELSE d[i]
            ELSE /\ "blocks" \in DOMAIN body
                 /\ "attachments" \notin DOMAIN body
                 /\ new_data[idx].detail = d
                 /\ \A t \in ShownTexts(body) : ~Contains(t, <<"U+3002", "\r">>)

\* A Teams entry whose detail held a full stop before a line break was
\* posted with the rewrite, and after it an entry for an unrecognized
\* destination with the same detail was posted in the blocks layout.
C8_Witness ==
    /\ pc = "sleep"
    /\ Len(posts) = 2
    /\ "attachments" \in DOMAIN posts[1].body
    /\ Contains(posts[1].body.attachments[1].content.expandedItems[1], <<"U+3002", "\r">>)
    /\ item.destination = "discord"
    /\ Contains(item.detail, <<"U+3002", "\n">>)

IsInsertRecord(r) == r.eventName = "INSERT"

\* The INSERT records of the event, in record order.
Inserts ==
    IF "Records" \in DOMAIN event THEN SelectSeq(event.Records, IsInsertRecord)
    ELSE <<>>

\* The article link a message carries.
LinkOf(body) ==
    IF "blocks" \in DOMAIN body THEN body.blocks[Len(body.blocks)].url
    ELSE body.attachments[1].content.actions[1].url

\* The POSTs made so far are for the first INSERT records of the event, one
\* each, in record order, each sent to the webhook of its record's notifier.
PostsArePrefixOfInserts ==
    /\ Len(posts) <= Len(Inserts)
    /\ \A j \in 1..Len(posts) :
          /\ posts[j].k = j
          /\ LinkOf(posts[j].body) = Inserts[j].dynamodb.NewImage.url
          /\ posts[j].url =
                NOTIFIERS[Inserts[j].dynamodb.NewImage.notifier_name].webhookUrlParameterName

\* An entry after the first is fetched and summarized only after the entry
\* before it was posted and the pacing delay that follows the POST was slept.
OneEntryAtATime ==
    \A i \in 1..Len(log) :
        (log[i].op \in {"get_blog_content", "summarize_blog"} /\ log[i].k > 1) =>
            \E p \in 1..(i - 1) : \E s \in (p + 1)..(i - 1) :
                /\ log[p].op = "post" /\ log[p].k = log[i].k - 1
                /\ log[s].op = "sleep" /\ log[s].k = log[i].k - 1

NothingRaised == \A i \in 1..Len(log) : log[i].op # "raise"

\* The invocation comes to its return: short of it the invocation is at a
\* step that can be taken, and the calls made stay within five per INSERT record (parameter
\* lookup, fetch, summary, POST, sleep) plus one raise and one catch.
ComesToReturn ==
    /\ pc # "returned" =>
          \/ pc \in {"handler", "except"}
          \/ /\ pc \in {"resolve", "fetch", "summarize", "post", "sleep"}
             /\ idx \in 1..Len(new_data)
             /\ pc = "summarize" => item.summarizerName \in DOMAIN SUMMARIZERS
    /\ Len(log) <= 5 * Len(Inserts) + 2

\* C10: at every point of an invocation the POSTs made so far are for a
\* prefix of the event's INSERT records in record order (none for a record of
\* another kind, at most one per INSERT record), entry k+1 is not fetched or
\* summarized before entry k was posted and its pacing delay slept, and the
\* invocation comes to its return (every step but the first adds to the calls
\* made, which are bounded) with, if no step raised, every INSERT record
\* posted.
C10_PostsFollowInsertsInOrder ==
    /\ [](/\ PostsArePrefixOfInserts
          /\ OneEntryAtATime
          /\ ComesToReturn
          /\ (pc = "returned" /\ NothingRaised) => Len(posts) = Len(Inserts))
    /\ [][pc = "handler" \/ Len(log') > Len(log)]_vars

\* An event of three records, an INSERT, a record of another kind and an
\* INSERT, has been handled to the end with both INSERT records posted.
C10_Witness ==
    /\ pc = "returned"
    /\ "Records" \in DOMAIN event
    /\ Len(event.Records) = 3
    /\ event.Records[2].eventName # "INSERT"
    /\ Len(posts) = 2
    /\ NothingRaised

\* The POSTs made are those of entries 1..n, each answered with 200.
PostedExactly(n) ==
    /\ Len(posts) = n
    /\ \A p \in 1..n : posts[p].k = p /\ posts[p].status = "ok"

\* Entry i's summarize_blog has raised an exception of class type, which left
\* push_notification for handler's except clause.
RaisedOutOfSummarize(j, type) ==
    /\ j < Len(log)
    /\ log[j + 1] = [op |-> "raise", k |-> log[j].k, type |-> type,
                     origin |-> "summarize_blog"]
    /\ \/ pc = "except" /\ exc = type
       \/ /\ pc = "returned"
          /\ log[Len(log)] = [op |-> "caught", k |-> log[j].k, type |-> type,
                              origin |-> "handler"]
    /\ idx = log[j].k

\* C11: when converse fails with an error other than AccessDeniedException
\* while entry i is summarized, the ClientError leaves summarize_blog and
\* push_notification, and the rest of the batch is aborted: from then on the
\* POSTs made are exactly those of entries 1..i-1, none for entry i or a
\* later one.
C11_OtherModelErrorAbortsBatch ==
    \A j \in 1..Len(log) :
        (log[j].op = "error" /\ log[j].type # "AccessDeniedException") =>
            /\ RaisedOutOfSummarize(j, "ClientError")
            /\ PostedExactly(log[j].k - 1)

\* The model failed with another error at the second entry or later, after
\* the first entry was posted, and the invocation has returned.
C11_Witness ==
    /\ pc = "returned"
    /\ Len(posts) > 0
    /\ \E j \in 1..Len(log) :
          /\ log[j].op = "error"
          /\ log[j].type = "ThrottlingException"
          /\ log[j].k > 1
          /\ log[j].k < Len(new_data)

\* C12: when converse fails with AccessDeniedException while entry i is
\* summarized, summarize_blog catches it and prints its diagnostic, no
\* ClientError is raised again (what leaves summarize_blog is the
\* UnboundLocalError of its return statement), and the entry goes no
\* further: it gets no summary and no detail and no POST is made for it.
C12_AccessDeniedHaltsEntry ==
    \A j \in 1..Len(log) :
        (log[j].op = "error" /\ log[j].type = "AccessDeniedException") =>
            /\ j < Len(log)
            /\ log[j + 1] = [op |-> "print", k |-> log[j].k,
                             type |-> "AccessDeniedException",
                             origin |-> "summarize_blog"]
            /\ \A n \in 1..Len(log) :
                  (n > j /\ log[n].op \in {"raise", "caught"}) =>
                      ~IsInstance(log[n].type, "ClientError")
            /\ ~IsInstance(exc, "ClientError")
            /\ pc \in {"except", "returned"}
            /\ DOMAIN new_data[log[j].k] \cap {"summary", "detail"} = {}
            /\ \A p \in 1..Len(posts) : posts[p].k # log[j].k

\* Permission was denied for the second entry after the first was posted,
\* and the invocation has returned.
C12_Witness ==
    /\ pc = "returned"
    /\ Len(posts) > 0
    /\ \E j \in 1..Len(log) :
          /\ log[j].op = "error"
          /\ log[j].type = "AccessDeniedException"
          /\ log[j].k > 1

====
